---------------------------- MODULE Spec2Model ----------------------------
(***************************************************************************)
(* Model of the election-counting engine of voting-simulator               *)
(* (src/voting-simulator/district.py).                                     *)
(*                                                                         *)
(* Parties, candidates and voter groups are values compared by their       *)
(* fields (party.py, candidate.py, voter_group.py: __eq__), and mappings   *)
(* keyed by them (dict) are sequences of <<key, value>> entries in         *)
(* insertion order; whether Python can hash the keys is not modelled.      *)
(* Exceptions are modelled by the variable err: a call that raises leaves  *)
(* pc = "raised" and returns no result.  Random draws (rd.randint,         *)
(* rd.shuffle, rd.choice, rd.triangular) are choices among the values the  *)
(* draw can return.                                                        *)
(*                                                                         *)
(* generate_districts of region.py is modelled by its loops; the district  *)
(* it creates in each pass (VotingDistrict, a name district.py does not    *)
(* define) is kept as its number of voters.                                *)
(***************************************************************************)
EXTENDS Integers, Sequences, FiniteSets, TLC

\* ------------------------------------------------------------------ bounds
\* Largest number of candidates generate_candidates gives one party.
MaxPerParty == 3
\* Largest total_voters of a district.
MaxVoters == 5
\* Largest number of seats (and of votes per ballot) a call asks for.
MaxSeats == 3
\* Longest candidate list on which ballots are generated with randomize=True,
\* and on which score ballots are generated.
MaxShuffled == 2
\* Largest population of a region.
MaxPopulation == 6

VARIABLES
    total_voters,\* District.total_voters
    voter_map,   \* District.voter_map: sequence of [group, voters]
    candidates,  \* the candidate list the caller passes to simulate_*
    pc,          \* "idle" | "stv" | "bucklin" | "returned" | "raised"
    call,        \* the running (or last) call: method and arguments
    err,         \* the exception the last call raised, or "none"
    result,      \* the ElectionResult the last call returned, or NoResult
    ballots,     \* local of the running call: list of [ranking, voters]
    counts,      \* local of the running call: candidate -> votes
    winners,     \* local of the running call: candidates elected so far
    total_votes, \* local of the running call: weight of all ballots
    quota,       \* local of simulate_stv: the Droop quota, or NoQuota
    nranks,      \* local n of the running call: ranks per ballot
    passes,      \* passes of the Bucklin round loop over the ballots
    first,       \* outcome of the first run of a call that is run again
    population,  \* VotingDistrictsRegion.population
    ndistricts,  \* VotingDistrictsRegion.ndistricts
    districts,   \* VotingDistrictsRegion.districts: the voters of each district
    region_remaining, \* local remaining of generate_districts
    region_i,    \* local i of generate_districts
    region_n,    \* local n of generate_districts
    region_pc    \* "none" | "generating" | "done"

locals == <<ballots, counts, winners, total_votes, quota, nranks, passes>>

\* the region and the locals of its generate_districts
region == <<population, ndistricts, districts, region_remaining, region_i, region_n,
            region_pc>>

vars == <<total_voters, voter_map, candidates, pc, call, err, result, ballots, counts, winners,
          total_votes, quota, nranks, passes, first, region>>

\* ------------------------------------------------------------- data model
\* three of the parties of PARTY_DICT, in its order
PARTIES == <<"R", "D", "G">>

\* voter groups (their preferences) a district is created with
VoterGroups == << <<"R", "D", "G">>, <<"D", "G", "R">>, <<"G", "R", "D">> >>

Candidate(party, identifier) == [party |-> party, id |-> identifier]

generate_party_candidates(party, n) == [i \in 1..n |-> Candidate(party, i - 1)]

RECURSIVE CandidatesFrom(_, _)
CandidatesFrom(numbers_for_each, k) ==
    IF k > Len(PARTIES) THEN <<>>
    ELSE generate_party_candidates(PARTIES[k], numbers_for_each[PARTIES[k]])
            \o CandidatesFrom(numbers_for_each, k + 1)

generate_candidates(numbers_for_each) == CandidatesFrom(numbers_for_each, 1)

Range(s) == {s[i] : i \in 1..Len(s)}

Min(a, b) == IF a < b THEN a ELSE b

Max(a, b) == IF a > b THEN a ELSE b

RECURSIVE SumSeq(_)
SumSeq(s) == IF s = <<>> THEN 0 ELSE Head(s) + SumSeq(Tail(s))

\* list[0:n] for n >= 0
Take(s, n) == SubSeq(s, 1, Min(n, Len(s)))

\* [c for c in candidates if c.party == party]
OfParty(cands, party) == SelectSeq(cands, LAMBDA c : c.party = party)

\* the orders rd.shuffle can leave a list in
Shuffles(s) ==
    {[i \in 1..Len(s) |-> s[p[i]]] :
        p \in {q \in [1..Len(s) -> 1..Len(s)] : \A i, j \in 1..Len(s) : q[i] = q[j] => i = j}}

\* Python's round(num / den), den > 0: halves go to the even neighbour
RoundDiv(num, den) ==
    LET q == num \div den
        r == num % den
    IN  IF 2 * r < den THEN q
        ELSE IF 2 * r > den THEN q + 1
        ELSE IF q % 2 = 0 THEN q ELSE q + 1

\* the lists of voter groups a district is created with: some of
\* VoterGroups, in that order
RECURSIVE VoterGroupListsFrom(_)
VoterGroupListsFrom(k) ==
    IF k > Len(VoterGroups) THEN {<<>>}
    ELSE LET rest == VoterGroupListsFrom(k + 1)
         IN  rest \cup {<<VoterGroups[k]>> \o r : r \in rest}

VoterGroupLists == VoterGroupListsFrom(1) \ {<<>>}

\* the loop of generate_voter_map from group i on: every group but the last
\* gets rd.randint(0, max(max_voters, remaining)), the last the remainder
RECURSIVE FillVoterMap(_, _, _, _)
FillVoterMap(voter_groups, i, remaining, max_voters) ==
    IF i = Len(voter_groups)
    THEN {<<[group |-> voter_groups[i], voters |-> remaining]>>}
    ELSE UNION {{<<[group |-> voter_groups[i], voters |-> v]>> \o rest :
                    rest \in FillVoterMap(voter_groups, i + 1, remaining - v, max_voters)} :
                v \in 0..Max(max_voters, remaining)}

\* the maps generate_voter_map can return; max_voters = round(0.4 * total)
generate_voter_map(total, voter_groups) ==
    FillVoterMap(voter_groups, 1, total, RoundDiv(2 * total, 5))

\* --------------------------------------------------------- dict utilities
Entry(c, v) == [c |-> c, v |-> v]

\* {c: 0 for c in candidates}
ZeroCounts(cands) == [i \in 1..Len(cands) |-> Entry(cands[i], 0)]

\* d[key] += amount  (the key is present)
AddTo(d, key, amount) ==
    [i \in 1..Len(d) |-> IF d[i].c = key THEN Entry(key, d[i].v + amount) ELSE d[i]]

Get(d, key) == (CHOOSE i \in 1..Len(d) : d[i].c = key)

ValueOf(d, key) == d[Get(d, key)].v

Keys(d) == [i \in 1..Len(d) |-> d[i].c]

\* (mutant of InsertSorted: an item goes before the items of equal value)
RECURSIVE InsertSortedUnstable(_, _)
InsertSortedUnstable(sorted, item) ==
    IF sorted = <<>> THEN <<item>>
    ELSE IF Head(sorted).v > item.v
         THEN <<Head(sorted)>> \o InsertSortedUnstable(Tail(sorted), item)
         ELSE <<item>> \o sorted

\* sorted(..., reverse=True) is stable: an item goes behind every item of
\* value greater than or equal to its own
RECURSIVE InsertSorted(_, _)
InsertSorted(sorted, item) ==
    IF sorted = <<>> THEN <<item>>
    ELSE IF Head(sorted).v >= item.v
         THEN <<Head(sorted)>> \o InsertSorted(Tail(sorted), item)
         ELSE <<item>> \o sorted

RECURSIVE SortFrom(_, _, _)
SortFrom(sorted, items, k) ==
    IF k > Len(items) THEN sorted
    ELSE SortFrom(InsertSorted(sorted, items[k]), items, k + 1)

sort_dict_desc(dictionary) == SortFrom(<<>>, dictionary, 1)

\* ---------------------------------------------------------------- results
NoResult == [voting_system |-> "", counts |-> <<>>, winners |-> <<>>, details |-> <<>>]

ElectionResult(name, cnt, won, details) ==
    [voting_system |-> name, counts |-> cnt, winners |-> won, details |-> details]

Returned(r) == [err |-> "none", result |-> r]

Raised(e) == [err |-> e, result |-> NoResult]

\* no first run is on record
NoOutcome == [err |-> "", result |-> NoResult]

\* quota = None
NoQuota == -1

NoCall == [method |-> "", n |-> 0, seats |-> 0, randomize |-> FALSE,
           droop_quota |-> FALSE, surplus_transfers |-> FALSE, variant |-> "",
           min_score |-> 0, max_score |-> 0]

\* ------------------------------------------------- generate_block_ballots
\* One voter group's ballot: party after party in order of preference, till
\* the ballot holds n candidates or more; each party adds choices[0:n].
RECURSIVE BlockBallotsOfGroup(_, _, _, _, _, _)
BlockBallotsOfGroup(ballot, prefs, j, n, cands, randomize) ==
    IF j > Len(prefs) \/ Len(ballot) >= n THEN {ballot}
    ELSE LET choices == OfParty(cands, prefs[j])
             orders  == IF randomize THEN Shuffles(choices) ELSE {choices}
         IN  UNION {BlockBallotsOfGroup(ballot \o Take(o, n), prefs, j + 1, n,
                                        cands, randomize) : o \in orders}

\* every list of (ballot, voters) the call can return, one ballot per group
RECURSIVE BlockBallotsFrom(_, _, _, _, _)
BlockBallotsFrom(vmap, k, n, cands, randomize) ==
    IF k > Len(vmap) THEN {<<>>}
    ELSE {<<[ballot |-> b, voters |-> vmap[k].voters]>> \o rest :
            b \in BlockBallotsOfGroup(<<>>, vmap[k].group, 1, n, cands, randomize),
            rest \in BlockBallotsFrom(vmap, k + 1, n, cands, randomize)}

generate_block_ballots(vmap, n, cands, randomize) ==
    BlockBallotsFrom(vmap, 1, n, cands, randomize)

\* ------------------------------------------------------------ simulate_ntv
\* (mutant of CountBallot: a ballot counts once, whatever its weight)
RECURSIVE CountBallotOnce(_, _, _, _)
CountBallotOnce(cnt, ballot, votes, i) ==
    IF i > Len(ballot) THEN cnt
    ELSE CountBallotOnce(AddTo(cnt, ballot[i], 1), ballot, votes, i + 1)

\* for candidate in ballot: counts[candidate] += votes
RECURSIVE CountBallot(_, _, _, _)
CountBallot(cnt, ballot, votes, i) ==
    IF i > Len(ballot) THEN cnt
    ELSE CountBallot(AddTo(cnt, ballot[i], votes), ballot, votes, i + 1)

RECURSIVE CountBlockBallots(_, _, _)
CountBlockBallots(cnt, blts, k) ==
    IF k > Len(blts) THEN cnt
    ELSE CountBlockBallots(CountBallot(cnt, blts[k].ballot, blts[k].voters, 1),
                           blts, k + 1)

NtvWinners(cnt, seats) == Keys(Take(sort_dict_desc(cnt), seats))

NtvDetails(randomize) ==
    <<"votes per ballot", "seats", "candidates">>
        \o (IF randomize THEN <<"Randomized ballot generation">> ELSE <<>>)

\* (mutant of NoSeatsToFill: a call for no seat at all is let through)
NoSeatsToFillBelowZero(seats) == seats < 0

\* if seats < 1: raise NoSeatsToFillError  (simulate_ntv, simulate_stv,
\* simulate_star_bloc_voting)
NoSeatsToFill(seats) == seats < 1

\* (mutant of TooFewCandidates: the seats are not compared with the list)
TooFewCandidatesForOne(cands, seats) == Len(cands) <= 1

\* if len(candidates) <= 1 or seats > len(candidates): raise
\* NotEnoughCandidatesError  (simulate_ntv, simulate_stv,
\* simulate_star_bloc_voting)
TooFewCandidates(cands, seats) == Len(cands) <= 1 \/ seats > Len(cands)

simulate_ntv(vmap, n, seats, cands, randomize) ==
    IF NoSeatsToFill(seats) THEN {Raised("NoSeatsToFillError")}
    ELSE IF TooFewCandidates(cands, seats) THEN {Raised("NotEnoughCandidatesError")}
    ELSE {LET cnt == CountBlockBallots(ZeroCounts(cands), blts, 1)
          IN  Returned(ElectionResult("Non-transferable vote (NTV)", cnt,
                                      NtvWinners(cnt, seats), NtvDetails(randomize))) :
            blts \in generate_block_ballots(vmap, n, cands, randomize)}

\* a wrapper's relabelling of the result the generic method returned
Relabel(o, name, details) ==
    IF o.err # "none" THEN o
    ELSE Returned([o.result EXCEPT !.voting_system = name, !.details = details])

simulate_sntv(vmap, seats, cands, randomize) ==
    {Relabel(o, "Single non-transferable vote (SNTV)", Tail(o.result.details)) :
        o \in simulate_ntv(vmap, 1, seats, cands, randomize)}

\* randomize is not handed on to simulate_sntv
simulate_fptp(vmap, cands, randomize) ==
    {Relabel(o, "First-past-the-post (FPTP)", Tail(o.result.details)) :
        o \in simulate_sntv(vmap, 1, cands, FALSE)}

simulate_mntv(vmap, seats, cands, randomize) ==
    {Relabel(o, "Multiple non-transferable vote (MNTV)", o.result.details) :
        o \in simulate_ntv(vmap, seats, seats, cands, randomize)}

\* rd.randint(5, 10)
BallotSizes == 5..10

\* one draw of rd.randint(5, 10) for each value min(drawn, limit) can take
DrawsFor(limit) ==
    {CHOOSE d \in BallotSizes : Min(d, limit) = n : n \in {Min(d, limit) : d \in BallotSizes}}

\* drawn is the value rd.randint(5, 10) returns
simulate_limited_voting(vmap, seats, cands, randomize, drawn) ==
    {Relabel(o, "Limited voting", o.result.details) :
        o \in simulate_ntv(vmap, Min(drawn, seats - 1), seats, cands, randomize)}

\* ------------------------------------------------ generate_ranked_ballots
\* [c for c in candidates if c.party == p and c not in ranked_ballot]
Unranked(cands, p, ranked) ==
    SelectSeq(cands, LAMBDA c : c.party = p /\ c \notin Range(ranked))

\* The candidates that rank k (from 0) of a ballot can go to.  A candidate
\* is taken from each of the group's first k+1 parties (party_list[0], or
\* rd.choice(party_list)) and the rank goes to the one of the last party
\* (choices[-1]) or to any of them (rd.choice(choices)).  A party with no
\* unranked candidate left raises IndexError: the empty set.
RankChoices(ranked, prefs, k, cands, randomize) ==
    LET parties == Take(prefs, k + 1)
        lists   == [j \in 1..Len(parties) |-> Unranked(cands, parties[j], ranked)]
    IN  IF lists = <<>> \/ \E j \in 1..Len(lists) : lists[j] = <<>> THEN {}
        ELSE IF randomize THEN UNION {Range(lists[j]) : j \in 1..Len(lists)}
        ELSE {lists[Len(lists)][1]}

\* the rankings of n candidates one voter group can end with
RECURSIVE RankingsOfGroup(_, _, _, _, _, _)
RankingsOfGroup(ranked, prefs, k, n, cands, randomize) ==
    IF k >= n THEN {[err |-> "none", ranking |-> ranked]}
    ELSE LET choices == RankChoices(ranked, prefs, k, cands, randomize)
         IN  IF choices = {} THEN {[err |-> "IndexError", ranking |-> <<>>]}
             ELSE UNION {RankingsOfGroup(Append(ranked, c), prefs, k + 1, n, cands,
                                         randomize) : c \in choices}

RECURSIVE RankedBallotsFrom(_, _, _, _, _)
RankedBallotsFrom(vmap, g, n, cands, randomize) ==
    IF g > Len(vmap) THEN {[err |-> "none", ballots |-> <<>>]}
    ELSE UNION {
            IF r.err # "none" THEN {[err |-> r.err, ballots |-> <<>>]}
            ELSE {IF rest.err # "none" THEN rest
                  ELSE [err |-> "none",
                        ballots |-> <<[ranking |-> r.ranking, voters |-> vmap[g].voters]>>
                                        \o rest.ballots] :
                    rest \in RankedBallotsFrom(vmap, g + 1, n, cands, randomize)} :
            r \in RankingsOfGroup(<<>>, vmap[g].group, 0, n, cands, randomize)}

\* every outcome of the call: IndexError, or one ranked ballot per group
generate_ranked_ballots(vmap, n, cands, randomize) ==
    RankedBallotsFrom(vmap, 1, n, cands, randomize)

\* ------------------------------------------------------------ simulate_stv
\* n = min(max(round(1.5 * seats), 5), len(candidates))
StvBallotSize(seats, cands) == Min(Max(RoundDiv(3 * seats, 2), 5), Len(cands))

\* (mutant of StvBallots: the ballots a former call left behind are used again)
StvBallotsKept(left, generated) == IF left # <<>> THEN left ELSE generated

\* ballots = self.generate_ranked_ballots(...): the call's own new list,
\* whatever the local held before
StvBallots(left, generated) == generated

\* (mutant of CountFirstChoices: a ballot's votes go to its second choice
\* as well)
RECURSIVE CountFirstTwoChoices(_, _, _)
CountFirstTwoChoices(cnt, blts, k) ==
    IF k > Len(blts) THEN [err |-> "none", counts |-> cnt]
    ELSE IF blts[k].ranking = <<>> THEN [err |-> "IndexError", counts |-> cnt]
    ELSE CountFirstTwoChoices(
            IF Len(blts[k].ranking) < 2
            THEN AddTo(cnt, blts[k].ranking[1], blts[k].voters)
            ELSE AddTo(AddTo(cnt, blts[k].ranking[1], blts[k].voters),
                       blts[k].ranking[2], blts[k].voters),
            blts, k + 1)

\* first_choice = ranking[0]; counts[first_choice] += votes
RECURSIVE CountFirstChoices(_, _, _)
CountFirstChoices(cnt, blts, k) ==
    IF k > Len(blts) THEN [err |-> "none", counts |-> cnt]
    ELSE IF blts[k].ranking = <<>> THEN [err |-> "IndexError", counts |-> cnt]
    ELSE CountFirstChoices(AddTo(cnt, blts[k].ranking[1], blts[k].voters), blts, k + 1)

SumVoters(blts) == SumSeq([k \in 1..Len(blts) |-> blts[k].voters])

\* (mutant of DroopQuota: the increment is left out)
DroopQuotaFloor(total, seats) == total \div (seats + 1)

\* quota = m.floor(total_votes / (seats + 1)) + 1
DroopQuota(total, seats) == (total \div (seats + 1)) + 1

\* remaining = [(c, v) for c, v in sort_dict_desc(counts)
\*              if c not in winners and v > 0]
Remaining(cnt, won) ==
    SelectSeq(sort_dict_desc(cnt), LAMBDA e : e.c \notin Range(won) /\ e.v > 0)

\* r.remove(c): the first entry equal to c goes
RECURSIVE Remove(_, _)
Remove(r, c) ==
    IF r = <<>> THEN <<>>
    ELSE IF Head(r) = c THEN Tail(r)
    ELSE <<Head(r)>> \o Remove(Tail(r), c)

\* for r, v in ballots: r.remove(c)   (ValueError when c is not in r)
RemoveFromAll(blts, c) ==
    IF \E k \in 1..Len(blts) : c \notin Range(blts[k].ranking)
    THEN [err |-> "ValueError", ballots |-> blts]
    ELSE [err |-> "none",
          ballots |-> [k \in 1..Len(blts) |->
                          [blts[k] EXCEPT !.ranking = Remove(blts[k].ranking, c)]]]

\* next_choices[key] = next_choices.get(key, 0) + v
Accumulate(d, key, v) ==
    IF \E i \in 1..Len(d) : d[i].c = key THEN AddTo(d, key, v)
    ELSE Append(d, Entry(key, v))

\* for r, v in ballots: if r[0] == candidate: next_choice = r[1]; ...
RECURSIVE NextChoicesOf(_, _, _, _)
NextChoicesOf(blts, k, candidate, next_choices) ==
    IF k > Len(blts) THEN [err |-> "none", next_choices |-> next_choices]
    ELSE LET r == blts[k].ranking
         IN  IF r = <<>> THEN [err |-> "IndexError", next_choices |-> next_choices]
             ELSE IF r[1] # candidate
                  THEN NextChoicesOf(blts, k + 1, candidate, next_choices)
             ELSE IF Len(r) < 2 THEN [err |-> "IndexError", next_choices |-> next_choices]
             ELSE NextChoicesOf(blts, k + 1, candidate,
                                Accumulate(next_choices, r[2], blts[k].voters))

\* The transfer of a surplus (lines 586-600).  `for c, v in next_choices`
\* walks the keys of the dict, which are candidates, and unpacking a
\* candidate into c, v raises TypeError: no vote is ever added.
TransferSurplus(blts, cnt, candidate) ==
    LET found == NextChoicesOf(blts, 1, candidate, <<>>)
    IN  IF found.err # "none" THEN [err |-> found.err, counts |-> cnt]
        ELSE IF found.next_choices # <<>> THEN [err |-> "TypeError", counts |-> cnt]
        ELSE [err |-> "none", counts |-> cnt]

\* for candidate, votes in remaining: if votes >= quota: ... (lines 574-600)
RECURSIVE ElectFrom(_, _, _, _, _)
ElectFrom(st, remaining, i, q, surplus_transfers) ==
    IF i > Len(remaining) \/ st.err # "none" THEN st
    ELSE LET candidate == remaining[i].c
             votes     == remaining[i].v
         IN  IF votes < q THEN ElectFrom(st, remaining, i + 1, q, surplus_transfers)
             ELSE LET removed == RemoveFromAll(st.ballots, candidate)
                      surplus == votes - q
                      cnt     == AddTo(st.counts, candidate, -surplus)
                      moved   == IF surplus_transfers /\ surplus > 0
                                 THEN TransferSurplus(removed.ballots, cnt, candidate)
                                 ELSE [err |-> "none", counts |-> cnt]
                  IN  IF removed.err # "none" THEN [st EXCEPT !.err = removed.err]
                      ELSE IF moved.err # "none" THEN [st EXCEPT !.err = moved.err]
                      ELSE ElectFrom([err |-> "none", ballots |-> removed.ballots,
                                      counts |-> moved.counts,
                                      winners |-> Append(st.winners, candidate),
                                      reached_quota |-> TRUE, stop |-> FALSE],
                                     remaining, i + 1, q, surplus_transfers)

\* for r, v in ballots: if r[0] == lfc: next_choice = r[1]; ...; r.remove(lfc)
RECURSIVE StripLfc(_, _, _, _)
StripLfc(blts, k, lfc, next_choices) ==
    IF k > Len(blts) THEN [err |-> "none", ballots |-> blts, next_choices |-> next_choices]
    ELSE LET r == blts[k].ranking
             stripped == [blts EXCEPT ![k].ranking = Remove(r, lfc)]
         IN  IF r = <<>>
             THEN [err |-> "IndexError", ballots |-> blts, next_choices |-> next_choices]
             ELSE IF r[1] = lfc
             THEN IF Len(r) < 2
                  THEN [err |-> "IndexError", ballots |-> blts, next_choices |-> next_choices]
                  ELSE StripLfc(stripped, k + 1, lfc,
                                Accumulate(next_choices, r[2], blts[k].voters))
             ELSE IF lfc \notin Range(r)
             THEN [err |-> "ValueError", ballots |-> blts, next_choices |-> next_choices]
             ELSE StripLfc(stripped, k + 1, lfc, next_choices)

\* The elimination of the least favored candidate (lines 602-620).  As in
\* TransferSurplus, a non-empty next_choices raises TypeError.  The last
\* loop removes `candidate`, the loop variable of line 574: with the quota
\* it is left on the last remaining candidate, the one just stripped
\* (ValueError), and without the quota it was never bound
\* (UnboundLocalError).
Eliminate(st, remaining, droop_quota) ==
    IF remaining = <<>> THEN [st EXCEPT !.err = "IndexError"]
    ELSE LET lfc == remaining[Len(remaining)].c
             cnt == [i \in 1..Len(st.counts) |->
                        IF st.counts[i].c = lfc THEN Entry(lfc, 0) ELSE st.counts[i]]
             stripped == StripLfc(st.ballots, 1, lfc, <<>>)
         IN  IF stripped.err # "none" THEN [st EXCEPT !.err = stripped.err]
             ELSE IF stripped.next_choices # <<>> THEN [st EXCEPT !.err = "TypeError"]
             ELSE IF stripped.ballots = <<>>
                  THEN [st EXCEPT !.counts = cnt, !.ballots = stripped.ballots]
             ELSE IF ~droop_quota THEN [st EXCEPT !.err = "UnboundLocalError"]
             ELSE LET again == RemoveFromAll(stripped.ballots, lfc)
                  IN  IF again.err # "none" THEN [st EXCEPT !.err = again.err]
                      ELSE [st EXCEPT !.counts = cnt, !.ballots = again.ballots]

\* one pass of `while len(winners) < seats` (lines 555-620)
StvRound(blts, cnt, won, seats, q, droop_quota, surplus_transfers) ==
    LET remaining == Remaining(cnt, won)
        st == [err |-> "none", ballots |-> blts, counts |-> cnt, winners |-> won,
               reached_quota |-> FALSE, stop |-> FALSE]
    IN  IF seats = 1 /\ Len(remaining) = 2
        THEN [st EXCEPT !.winners = Append(won, remaining[1].c), !.stop = TRUE]
        ELSE IF Len(remaining) = seats
        THEN [st EXCEPT !.winners = won \o Keys(remaining), !.stop = TRUE]
        ELSE LET elected == IF droop_quota
                            THEN ElectFrom(st, remaining, 1, q, surplus_transfers)
                            ELSE st
             IN  IF elected.err # "none" \/ elected.reached_quota THEN elected
                 ELSE Eliminate(elected, remaining, droop_quota)

StvDetails(randomize, droop_quota, surplus_transfers) ==
    <<"seats", "candidates", "ranks per ballot">>
        \o (IF randomize THEN <<"Randomized ballot generation">> ELSE <<>>)
        \o (IF ~droop_quota THEN <<"Elimination transfers only">>
            ELSE IF surplus_transfers THEN <<"Using Droop quota with surplus transfers">>
            ELSE <<"Using Droop quota without surplus transfers">>)

\* the result simulate_stv returns, and what simulate_irv makes of it
StvResult(method, cnt, won, randomize, droop_quota, surplus_transfers) ==
    LET details == StvDetails(randomize, droop_quota, surplus_transfers)
    IN  IF method = "irv"
        THEN ElectionResult("Instant-runoff voting (IRV)", cnt, won,
                            SubSeq(details, 2, Len(details) - 1))
        ELSE ElectionResult("Single transferable vote (STV)", cnt, won, details)

\* ---------------------------------------------------- simulate_borda_count
\* round(score) for a ballot of `votes` voters and the rank index i (from 0)
BordaPoints(variant, votes, n, i) ==
    IF variant = "dowdall" THEN RoundDiv(votes, i + 1)
    ELSE IF variant = "zero-index" THEN votes * (n - i - 1)
    ELSE votes * (n - i)

\* for i, candidate in enumerate(ranking): scores[candidate] += round(score)
RECURSIVE ScoreRanking(_, _, _, _, _, _)
ScoreRanking(scores, ranking, votes, variant, n, i) ==
    IF i >= Len(ranking) THEN scores
    ELSE ScoreRanking(AddTo(scores, ranking[i + 1], BordaPoints(variant, votes, n, i)),
                      ranking, votes, variant, n, i + 1)

RECURSIVE ScoreRankedBallots(_, _, _, _, _)
ScoreRankedBallots(scores, blts, variant, n, k) ==
    IF k > Len(blts) THEN scores
    ELSE ScoreRankedBallots(
            ScoreRanking(scores, blts[k].ranking, blts[k].voters, variant, n, 0),
            blts, variant, n, k + 1)

\* the details line of the zero-index variant is given for 'zero_index'
BordaDetails(variant, randomize) ==
    (IF variant = "dowdall" THEN <<"Dowdall system">>
     ELSE IF variant = "zero_index" THEN <<"Zero-index variant">> ELSE <<>>)
        \o <<"candidates", "ranks per ballot">>
        \o (IF randomize THEN <<"Randomized ballot generation">> ELSE <<>>)

BordaVariants == {"standard", "zero-index", "zero_index", "dowdall"}

\* ------------------------------------------------- simulate_bucklin_voting
\* one pass of `for ranking, votes in ballots` (lines 864-872): the first
\* choice left on each ballot is counted and taken off; an empty ranking
\* is passed over
RECURSIVE BucklinCount(_, _, _)
BucklinCount(blts, cnt, k) ==
    IF k > Len(blts) THEN [ballots |-> blts, counts |-> cnt]
    ELSE IF blts[k].ranking = <<>> THEN BucklinCount(blts, cnt, k + 1)
    ELSE BucklinCount([blts EXCEPT ![k].ranking = Tail(blts[k].ranking)],
                      AddTo(cnt, blts[k].ranking[1], blts[k].voters), k + 1)

\* (mutant of MajorityCheck: the loop walks counts.items() and compares)
MajorityCheckItems(cnt, total) ==
    [err |-> "none",
     majority_reached |-> \E i \in 1..Len(cnt) : 2 * cnt[i].v > total]

\* `for candidate, votes in counts` (lines 874-878) walks the keys of the
\* dict, which are candidates: unpacking the first one raises TypeError
MajorityCheck(cnt, total) ==
    IF cnt # <<>> THEN [err |-> "TypeError", majority_reached |-> FALSE]
    ELSE [err |-> "none", majority_reached |-> FALSE]

\* -------------------------------------------------- generate_score_ballots
\* scores[key] = v
SetScore(d, key, v) ==
    IF \E i \in 1..Len(d) : d[i].c = key
    THEN [i \in 1..Len(d) |-> IF d[i].c = key THEN Entry(key, v) ELSE d[i]]
    ELSE Append(d, Entry(key, v))

\* [c for c in candidates if c.party == p and c not in scores.keys()]
Unscored(cands, p, scores) ==
    SelectSeq(cands, LAMBDA c : c.party = p /\ c \notin Range(Keys(scores)))

\* prefs.index(party)
IndexOf(prefs, party) == (CHOOSE j \in 1..Len(prefs) : prefs[j] = party) - 1

\* A score is kept as the number of halves it holds (max_score 5 is kept as
\* 10): rd.triangular returns a float, and the halves stand for the values
\* it returns between two whole numbers.
\*
\* rd.triangular(low, high, mode) on whole numbers, in halves. With
\* c = (mode - low) / (high - low) and u = random() in [0, 1) it returns
\* low + (high - low) * t, where t is sqrt(u * c) when u <= c and
\* 1 - sqrt((1 - u) * (1 - c)) when u > c; so t ranges over [0, 1) when
\* 0 <= c <= 1, over [0, sqrt(c)) when c > 1 and over [1 - sqrt(1 - c), 1)
\* when c < 0. high = low is ZeroDivisionError, caught: low is returned.
Triangular(low, high, mode) ==
    IF high = low THEN {2 * low}
    ELSE LET d == high - low
             span == 2 * (Max(d, -d) + Max(mode - low, low - mode)
                            + Max(high - mode, mode - high))
             \* x - 2 * low = 2 * d * t, and 2 * high - x = 2 * d * (1 - t)
             t_nonneg(x) == (x - 2 * low) * d >= 0
             t_below_one(x) == (2 * high - x) * d > 0
             inside(x) ==
                IF (mode - low) * d >= 0 /\ (high - mode) * d >= 0
                THEN t_nonneg(x) /\ t_below_one(x)
                ELSE IF (high - mode) * d < 0
                THEN t_nonneg(x)
                     /\ (x - 2 * low) * (x - 2 * low) < 4 * (mode - low) * d
                ELSE t_below_one(x)
                     /\ (2 * high - x) * (2 * high - x) <= 4 * (high - mode) * d
         IN  {x \in (2 * low - span)..(2 * low + span) : inside(x)}

\* the entries rank k (from 0) can add to a score ballot: {} is IndexError
ScoreChoices(scores, prefs, k, cands, min_score, max_score, randomize) ==
    LET mpp == OfParty(cands, prefs[1])
        lpp == Unscored(cands, prefs[Len(prefs)], scores)
    IN  IF k = 0
        THEN IF mpp = <<>> THEN {}
             ELSE {Entry(c, 2 * max_score) : c \in IF randomize THEN Range(mpp) ELSE {mpp[1]}}
        ELSE IF k = 1
        THEN IF randomize
             THEN {Entry(c, 2 * min_score) : c \in Range(lpp)}
             ELSE {Entry(mpp[1], 2 * min_score)}
        ELSE LET parties == Take(prefs, k - 1)
                 lists   == [j \in 1..Len(parties) |-> Unscored(cands, parties[j], scores)]
                 drawn   == IF randomize THEN UNION {Range(lists[j]) : j \in 1..Len(lists)}
                            ELSE {lists[Len(lists)][1]}
             IN  IF lists = <<>> \/ \E j \in 1..Len(lists) : lists[j] = <<>> THEN {}
                 ELSE UNION {{Entry(c, x) :
                                x \in Triangular(min_score, max_score - 1,
                                        RoundDiv((Len(prefs) - IndexOf(prefs, c.party))
                                                    * (max_score - 1), Len(prefs)))} :
                             c \in drawn}

RECURSIVE ScoresOfGroup(_, _, _, _, _, _, _, _)
ScoresOfGroup(scores, prefs, k, n, cands, min_score, max_score, randomize) ==
    IF k >= n THEN {[err |-> "none", scores |-> scores]}
    ELSE LET choices == ScoreChoices(scores, prefs, k, cands, min_score, max_score,
                                     randomize)
         IN  IF choices = {} THEN {[err |-> "IndexError", scores |-> <<>>]}
             ELSE UNION {ScoresOfGroup(SetScore(scores, e.c, e.v), prefs, k + 1, n, cands,
                                       min_score, max_score, randomize) : e \in choices}

RECURSIVE ScoreBallotsFrom(_, _, _, _, _, _, _)
ScoreBallotsFrom(vmap, g, n, cands, min_score, max_score, randomize) ==
    IF g > Len(vmap) THEN {[err |-> "none", ballots |-> <<>>]}
    ELSE UNION {
            IF b.err # "none" THEN {[err |-> b.err, ballots |-> <<>>]}
            ELSE {IF rest.err # "none" THEN rest
                  ELSE [err |-> "none",
                        ballots |-> <<[scores |-> b.scores, voters |-> vmap[g].voters]>>
                                        \o rest.ballots] :
                    rest \in ScoreBallotsFrom(vmap, g + 1, n, cands, min_score, max_score,
                                              randomize)} :
            b \in ScoresOfGroup(<<>>, vmap[g].group, 0, n, cands, min_score, max_score,
                                randomize)}

\* every outcome of the call: IndexError, or one score ballot per group
generate_score_ballots(vmap, n, cands, min_score, max_score, randomize) ==
    ScoreBallotsFrom(vmap, 1, n, cands, min_score, max_score, randomize)

\* ----------------------------------------------- simulate_star_bloc_voting
\* `for candidate, score in ballot` (lines 1054-1056) walks the keys of the
\* score dict: unpacking a candidate raises TypeError on the first ballot
\* that scores anyone
StarCount(cands, blts) ==
    IF \E k \in 1..Len(blts) : blts[k].scores # <<>>
    THEN [err |-> "TypeError", scores |-> <<>>]
    ELSE [err |-> "none", scores |-> ZeroCounts(cands)]

\* the loop that fills the seats (lines 1058-1085); the runoff unpacks the
\* keys of every ballot as the count does
RECURSIVE StarFill(_, _, _, _)
StarFill(scores, blts, won, seats) ==
    IF Len(won) >= seats THEN [err |-> "none", winners |-> won]
    ELSE LET remaining == Remaining(scores, won)
         IN  IF Len(remaining) = seats
             THEN [err |-> "none", winners |-> won \o Keys(remaining)]
             ELSE IF Len(remaining) < 2 THEN [err |-> "ValueError", winners |-> won]
             ELSE IF \E k \in 1..Len(blts) : blts[k].scores # <<>>
             THEN [err |-> "TypeError", winners |-> won]
             ELSE IF blts # <<>> THEN [err |-> "ValueError", winners |-> won]
             ELSE StarFill(scores, blts, Append(won, remaining[1].c), seats)

StarDetails == <<"seats", "candidates", "ranks per ballot", "Randomized selection">>

\* drawn is the value rd.randint(5, 10) returns
simulate_star_bloc_voting(vmap, seats, cands, randomize, drawn) ==
    IF NoSeatsToFill(seats) THEN {Raised("NoSeatsToFillError")}
    ELSE IF TooFewCandidates(cands, seats) THEN {Raised("NotEnoughCandidatesError")}
    ELSE {IF g.err # "none" THEN Raised(g.err)
          ELSE LET counted == StarCount(cands, g.ballots)
                   filled  == StarFill(counted.scores, g.ballots, <<>>, seats)
               IN  IF counted.err # "none" THEN Raised(counted.err)
                   ELSE IF filled.err # "none" THEN Raised(filled.err)
                   ELSE Returned(ElectionResult(
                            "Score-then-automatic-runoff (STAR) bloc voting",
                            counted.scores, filled.winners, StarDetails)) :
            g \in generate_score_ballots(vmap, Min(drawn, Len(cands)), cands, 0, 5,
                                         randomize)}

\* ---------------------------------------------------- simulate_star_voting
\* drawn is the value rd.randint(5, 10) returns
simulate_star_voting(vmap, cands, randomize, drawn) ==
    {Relabel(o, "Score-then-automatic-runoff (STAR) voting", Tail(o.result.details)) :
        o \in simulate_star_bloc_voting(vmap, 1, cands, randomize, drawn)}

\* --------------------------------------------------- simulate_score_voting
\* for candidate, score in ballot.items(): scores[candidate] += votes * score
RECURSIVE ScoreBallot(_, _, _, _)
ScoreBallot(scores, ballot, votes, j) ==
    IF j > Len(ballot) THEN scores
    ELSE ScoreBallot(AddTo(scores, ballot[j].c, votes * ballot[j].v), ballot, votes, j + 1)

\* for ballot, votes in ballots: ...  (lines 937-939)
RECURSIVE ScoreBallots(_, _, _)
ScoreBallots(scores, blts, k) ==
    IF k > Len(blts) THEN scores
    ELSE ScoreBallots(ScoreBallot(scores, blts[k].scores, blts[k].voters, 1), blts, k + 1)

ScoreDetails == <<"Score range", "candidates", "ranks per ballot", "Randomized selection">>

\* (mutant of InvalidScoreRange: the range is never refused)
InvalidScoreRangeNever(min_score, max_score) == FALSE

\* if min_score > max_score: raise InvalidScoreRangeError
InvalidScoreRange(min_score, max_score) == min_score > max_score

\* drawn is the value rd.randint(5, 10) returns; an outcome carries the
\* ballots that were generated for it
simulate_score_voting(vmap, cands, min_score, max_score, randomize, drawn) ==
    IF Len(cands) <= 1
    THEN {[out |-> Raised("NotEnoughCandidatesError"), ballots |-> <<>>]}
    ELSE IF InvalidScoreRange(min_score, max_score)
    THEN {[out |-> Raised("InvalidScoreRangeError"), ballots |-> <<>>]}
    ELSE {IF g.err # "none" THEN [out |-> Raised(g.err), ballots |-> <<>>]
          ELSE LET scores == ScoreBallots(ZeroCounts(cands), g.ballots, 1)
               IN  [out |-> Returned(ElectionResult("Score voting", scores,
                                        <<sort_dict_desc(scores)[1].c>>, ScoreDetails)),
                    ballots |-> g.ballots] :
            g \in generate_score_ballots(vmap, Min(drawn, Len(cands)), cands,
                                         min_score, max_score, randomize)}

\* result.details[0] = ...
ReplaceFirst(details, line) == <<line>> \o Tail(details)

simulate_cav(vmap, cands, randomize, drawn) ==
    {[out |-> Relabel(o.out, "Combined approval voting (CAV)",
                      ReplaceFirst(o.out.result.details, "Scores used")),
      ballots |-> o.ballots] :
        o \in simulate_score_voting(vmap, cands, -1, 1, randomize, drawn)}

simulate_approval_voting(vmap, cands, randomize, drawn) ==
    {[out |-> Relabel(o.out, "Approval voting",
                      ReplaceFirst(o.out.result.details, "Each approval counts as one point")),
      ballots |-> o.ballots] :
        o \in simulate_score_voting(vmap, cands, 0, 1, randomize, drawn)}

\* ------------------------------------------------------------ simulate_trs
\* candidate = ballot[0]; counts[candidate] += votes  (lines 452-454, 468-470)
RECURSIVE TrsCount(_, _, _)
TrsCount(cnt, blts, k) ==
    IF k > Len(blts) THEN [err |-> "none", counts |-> cnt]
    ELSE IF blts[k].ballot = <<>> THEN [err |-> "IndexError", counts |-> cnt]
    ELSE TrsCount(AddTo(cnt, blts[k].ballot[1], blts[k].voters), blts, k + 1)

\* `for candidate, votes in counts` (lines 457-460) walks the keys of the
\* dict, which are candidates: unpacking the first one raises TypeError.
\* total_votes is 0 here: the first count never adds to it.
TrsMajorityCheck(cnt, total) ==
    IF cnt # <<>> THEN [err |-> "TypeError", majority_reached |-> FALSE]
    ELSE [err |-> "none", majority_reached |-> FALSE]

TrsDetails(randomize) ==
    <<"initial candidates">> \o (IF randomize THEN <<"Randomized ballot generation">> ELSE <<>>)

\* the second round (lines 462-470) and the return (lines 472-479); cnt is
\* the first count, in which no majority was found
TrsSecondRound(vmap, cnt, randomize) ==
    LET top == Keys(Take(sort_dict_desc(cnt), 2))
    IN  IF Len(top) # 2 THEN {Raised("ValueError")}
        ELSE {LET second == TrsCount(ZeroCounts(top), blts, 1)
              IN  IF second.err # "none" THEN Raised(second.err)
                  ELSE Returned(ElectionResult("Two-round system (TRS)", second.counts,
                                    <<sort_dict_desc(second.counts)[1].c>>,
                                    TrsDetails(randomize))) :
                blts \in generate_block_ballots(vmap, 1, top, randomize)}

\* an outcome carries the ballots and the count of the first round
simulate_trs(vmap, cands, randomize) ==
    IF Len(cands) <= 1
    THEN {[out |-> Raised("NotEnoughCandidatesError"), ballots |-> <<>>, counts |-> <<>>]}
    ELSE UNION {
            LET round1 == TrsCount(ZeroCounts(cands), blts, 1)
                check  == TrsMajorityCheck(round1.counts, 0)
            IN  IF round1.err # "none"
                THEN {[out |-> Raised(round1.err), ballots |-> blts, counts |-> round1.counts]}
                ELSE IF check.err # "none"
                THEN {[out |-> Raised(check.err), ballots |-> blts, counts |-> round1.counts]}
                ELSE IF check.majority_reached
                THEN {[out |-> Returned(ElectionResult("Two-round system (TRS)",
                                    round1.counts, <<sort_dict_desc(round1.counts)[1].c>>,
                                    TrsDetails(randomize))),
                       ballots |-> blts, counts |-> round1.counts]}
                ELSE {[out |-> o, ballots |-> blts, counts |-> round1.counts] :
                        o \in TrsSecondRound(vmap, round1.counts, randomize)} :
            blts \in generate_block_ballots(vmap, 1, cands, randomize)}

\* ------------------------------------------------------- simulate_copeland
\* ranked_candidates (lines 716-720): the candidates of the rankings, each
\* once, in the order they are met
RECURSIVE Distinct(_, _, _)
Distinct(seen, s, j) ==
    IF j > Len(s) THEN seen
    ELSE Distinct(IF s[j] \in Range(seen) THEN seen ELSE Append(seen, s[j]), s, j + 1)

RECURSIVE RankedCandidates(_, _, _)
RankedCandidates(seen, blts, k) ==
    IF k > Len(blts) THEN seen
    ELSE RankedCandidates(Distinct(seen, blts[k].ranking, 1), blts, k + 1)

\* list(itls.combinations(ranked_candidates, 2))
Combinations(s) ==
    LET pairs == {<<i, j>> \in (1..Len(s)) \X (1..Len(s)) : i < j}
        before(p, q) == p[1] < q[1] \/ (p[1] = q[1] /\ p[2] < q[2])
        nth(m) == CHOOSE p \in pairs : Cardinality({q \in pairs : before(q, p)}) = m - 1
    IN  [m \in 1..Cardinality(pairs) |-> <<s[nth(m)[1]], s[nth(m)[2]]>>]

\* The count of one matching (lines 727-735). `for ranking, votes in
\* ballots` binds the name of the dict {a: 0, b: 0} to the number of voters
\* of the ballot: ranking.index raises ValueError when the ranking lacks a
\* or b, and otherwise votes[a] += votes subscripts an int, TypeError.
\* With no ballot the dict is compared with itself: neither wins.
CopelandMatch(a, b, blts) ==
    IF blts = <<>> THEN "none"
    ELSE IF a \notin Range(blts[1].ranking) \/ b \notin Range(blts[1].ranking)
    THEN "ValueError"
    ELSE "TypeError"

\* the loop over the matchings (lines 726-742): the first error ends it
RECURSIVE CopelandMatches(_, _, _)
CopelandMatches(matchings, blts, m) ==
    IF m > Len(matchings) THEN "none"
    ELSE LET e == CopelandMatch(matchings[m][1], matchings[m][2], blts)
         IN  IF e # "none" THEN e ELSE CopelandMatches(matchings, blts, m + 1)

CopelandDetails == <<"candidates", "ranks per ballot">>

\* drawn is the value rd.randint(5, 10) returns; an outcome carries the
\* ballots that were generated for it. A matching that is counted without
\* an error leaves won and lost as they are, so win_loss is all zeros.
simulate_copeland(vmap, cands, randomize, drawn) ==
    IF Len(cands) <= 1 THEN {[out |-> Raised("NotEnoughCandidatesError"), ballots |-> <<>>]}
    ELSE {IF g.err # "none" THEN [out |-> Raised(g.err), ballots |-> <<>>]
          ELSE LET ranked_candidates == RankedCandidates(<<>>, g.ballots, 1)
                   matched  == CopelandMatches(Combinations(ranked_candidates), g.ballots, 1)
                   win_loss == ZeroCounts(ranked_candidates)
               IN  [out |-> IF matched # "none" THEN Raised(matched)
                            ELSE IF win_loss = <<>> THEN Raised("IndexError")
                            ELSE Returned(ElectionResult("Copeland's method", win_loss,
                                            <<sort_dict_desc(win_loss)[1].c>>,
                                            CopelandDetails)),
                    ballots |-> g.ballots] :
            g \in generate_ranked_ballots(vmap, Min(drawn, Len(cands)), cands, randomize)}

\* ---------------------------------------------------------------- actions
Init ==
    /\ total_voters \in 0..MaxVoters
    /\ voter_map = <<>>
    /\ candidates \in {generate_candidates(num) : num \in [Range(PARTIES) -> 0..MaxPerParty]}
    /\ pc = "idle"
    /\ call = NoCall
    /\ err = "none"
    /\ result = NoResult
    /\ ballots = <<>>
    /\ counts = <<>>
    /\ winners = <<>>
    /\ total_votes = 0
    /\ quota = NoQuota
    /\ nranks = 0
    /\ passes = 0
    /\ first = NoOutcome
    /\ population = 0
    /\ ndistricts = 0
    /\ districts = <<>>
    /\ region_remaining = 0
    /\ region_i = 0
    /\ region_n = 0
    /\ region_pc = "none"

\* a call starts on a district no call has run on yet
Callable == pc = "idle"

\* district.voter_map = district.generate_voter_map(): the map the method
\* returns, which __init__ drops, is stored in the district
GenerateVoterMap ==
    /\ Callable
    /\ voter_map = <<>>
    /\ \E voter_groups \in VoterGroupLists :
            voter_map' \in generate_voter_map(total_voters, voter_groups)
    /\ UNCHANGED <<region, total_voters, candidates, pc, call, err, result, locals, first>>

\* randomize=True is explored on candidate lists of up to MaxShuffled entries
RandomizeArgs == IF Len(candidates) <= MaxShuffled THEN BOOLEAN ELSE {FALSE}

\* (mutant of End: a call that returns leaves the caller's candidate list
\* in the order of the counts)
EndSorted(c, o) ==
    /\ call' = c
    /\ err' = o.err
    /\ result' = o.result
    /\ pc' = IF o.err = "none" THEN "returned" ELSE "raised"
    /\ voter_map' = voter_map
    /\ total_voters' = total_voters
    /\ UNCHANGED region
    /\ candidates' = IF o.err = "none" /\ Len(o.result.counts) = Len(candidates)
                     THEN Keys(sort_dict_desc(o.result.counts)) ELSE candidates

\* the call ends with outcome o: it returned a result or raised. No method
\* assigns to self.voter_map or changes the list it was handed: the ballot
\* generators shuffle and slice lists of their own (lines 98-108).
End(c, o) ==
    /\ call' = c
    /\ err' = o.err
    /\ result' = o.result
    /\ pc' = IF o.err = "none" THEN "returned" ELSE "raised"
    /\ UNCHANGED <<region, total_voters, voter_map, candidates>>

\* a call that keeps no state between steps ends at once
Finish(c, o) == End(c, o) /\ UNCHANGED <<locals, first>>

SimulateNtv ==
    /\ Callable
    /\ \E n \in 0..MaxSeats, seats \in 0..MaxSeats, randomize \in RandomizeArgs :
        \E o \in simulate_ntv(voter_map, n, seats, candidates, randomize) :
            Finish([NoCall EXCEPT !.method = "ntv", !.n = n, !.seats = seats,
                                  !.randomize = randomize], o)

SimulateSntv ==
    /\ Callable
    /\ \E seats \in 0..MaxSeats, randomize \in RandomizeArgs :
        \E o \in simulate_sntv(voter_map, seats, candidates, randomize) :
            Finish([NoCall EXCEPT !.method = "sntv", !.n = 1, !.seats = seats,
                                  !.randomize = randomize], o)

SimulateFptp ==
    /\ Callable
    /\ \E randomize \in RandomizeArgs :
        \E o \in simulate_fptp(voter_map, candidates, randomize) :
            Finish([NoCall EXCEPT !.method = "fptp", !.n = 1, !.seats = 1,
                                  !.randomize = randomize], o)

SimulateMntv ==
    /\ Callable
    /\ \E seats \in 0..MaxSeats, randomize \in RandomizeArgs :
        \E o \in simulate_mntv(voter_map, seats, candidates, randomize) :
            Finish([NoCall EXCEPT !.method = "mntv", !.n = seats, !.seats = seats,
                                  !.randomize = randomize], o)

SimulateLimitedVoting ==
    /\ Callable
    /\ \E seats \in 0..MaxSeats, randomize \in RandomizeArgs :
       \E drawn \in DrawsFor(seats - 1) :
        \E o \in simulate_limited_voting(voter_map, seats, candidates, randomize, drawn) :
            Finish([NoCall EXCEPT !.method = "limited", !.n = Min(drawn, seats - 1),
                                  !.seats = seats, !.randomize = randomize], o)

NextNtv ==
    \/ GenerateVoterMap
    \/ SimulateNtv
    \/ SimulateSntv
    \/ SimulateFptp
    \/ SimulateMntv
    \/ SimulateLimitedVoting

SpecNtv == Init /\ [][NextNtv]_vars

\* simulate_stv up to the round loop (lines 533-553)
BeginStv(c) ==
    IF NoSeatsToFill(c.seats) THEN End(c, Raised("NoSeatsToFillError")) /\ UNCHANGED locals
    ELSE IF TooFewCandidates(candidates, c.seats)
    THEN End(c, Raised("NotEnoughCandidatesError")) /\ UNCHANGED locals
    ELSE \E g \in generate_ranked_ballots(voter_map, StvBallotSize(c.seats, candidates),
                                          candidates, c.randomize) :
            LET used  == StvBallots(ballots, g.ballots)
                told  == CountFirstChoices(ZeroCounts(candidates), used, 1)
            IN  IF g.err # "none" THEN End(c, Raised(g.err)) /\ UNCHANGED locals
                ELSE IF told.err # "none" THEN End(c, Raised(told.err)) /\ UNCHANGED locals
                ELSE /\ call' = c
                     /\ pc' = "stv"
                     /\ err' = "none"
                     /\ result' = NoResult
                     /\ ballots' = used
                     /\ counts' = told.counts
                     /\ winners' = <<>>
                     /\ total_votes' = SumVoters(used)
                     /\ quota' = IF c.droop_quota THEN DroopQuota(SumVoters(used), c.seats)
                                 ELSE NoQuota
                     /\ nranks' = StvBallotSize(c.seats, candidates)
                     /\ UNCHANGED <<region, total_voters, voter_map, candidates, passes>>

StvArgs ==
    {[NoCall EXCEPT !.method = "stv", !.seats = seats, !.droop_quota = d,
                    !.surplus_transfers = t, !.randomize = randomize] :
        seats \in 0..MaxSeats, d \in BOOLEAN, t \in BOOLEAN, randomize \in RandomizeArgs}

IrvArgs ==
    {[NoCall EXCEPT !.method = "irv", !.seats = 1, !.droop_quota = FALSE,
                    !.surplus_transfers = TRUE, !.randomize = randomize] :
        randomize \in RandomizeArgs}

SimulateStv ==
    /\ Callable
    /\ \E c \in StvArgs : BeginStv(c)
    /\ UNCHANGED first

SimulateIrv ==
    /\ Callable
    /\ \E c \in IrvArgs : BeginStv(c)
    /\ UNCHANGED first

\* one pass of the round loop of simulate_stv
StvLoop ==
    /\ pc = "stv"
    /\ Len(winners) < call.seats
    /\ LET st == StvRound(ballots, counts, winners, call.seats, quota,
                          call.droop_quota, call.surplus_transfers)
       IN  IF st.err # "none"
           THEN End(call, Raised(st.err)) /\ UNCHANGED locals
           ELSE IF st.stop
           THEN /\ End(call, Returned(StvResult(call.method, st.counts, st.winners,
                                                call.randomize, call.droop_quota,
                                                call.surplus_transfers)))
                /\ ballots' = st.ballots
                /\ counts' = st.counts
                /\ winners' = st.winners
                /\ UNCHANGED <<total_votes, quota, nranks, passes>>
           ELSE /\ ballots' = st.ballots
                /\ counts' = st.counts
                /\ winners' = st.winners
                /\ UNCHANGED <<region, total_voters, voter_map, candidates, pc, call, err, result,
                               total_votes, quota, nranks, passes>>
    /\ UNCHANGED first

\* the round loop ends with the seats filled: the result is returned
StvReturn ==
    /\ pc = "stv"
    /\ Len(winners) >= call.seats
    /\ End(call, Returned(StvResult(call.method, counts, winners, call.randomize,
                                    call.droop_quota, call.surplus_transfers)))
    /\ UNCHANGED <<locals, first>>

\* the caller runs the same election again, on the same district and with
\* the same arguments, and keeps the first outcome to compare
RunAgain ==
    /\ pc \in {"returned", "raised"}
    /\ call.method \in {"stv", "irv"}
    /\ first = NoOutcome
    /\ first' = [err |-> err, result |-> result]
    /\ BeginStv(call)

NextStv ==
    \/ GenerateVoterMap
    \/ SimulateStv
    \/ SimulateIrv
    \/ StvLoop
    \/ StvReturn

SpecStv == Init /\ [][NextStv]_vars

NextStvTwice ==
    \/ NextStv
    \/ RunAgain

SpecStvTwice == Init /\ [][NextStvTwice]_vars

\* simulate_borda_count (lines 789-825)
SimulateBordaCount ==
    /\ Callable
    /\ \E variant \in BordaVariants, randomize \in RandomizeArgs,
          drawn \in DrawsFor(Len(candidates)) :
        LET c == [NoCall EXCEPT !.method = "borda", !.variant = variant,
                                !.randomize = randomize,
                                !.n = Min(drawn, Len(candidates))]
        IN  IF Len(candidates) <= 1
            THEN End(c, Raised("NotEnoughCandidatesError")) /\ UNCHANGED locals
            ELSE \E g \in generate_ranked_ballots(voter_map, c.n, candidates, randomize) :
                    IF g.err # "none" THEN End(c, Raised(g.err)) /\ UNCHANGED locals
                    ELSE \E scores \in {ScoreRankedBallots(ZeroCounts(candidates),
                                                          g.ballots, variant, c.n, 1)} :
                             /\ End(c, Returned(ElectionResult(
                                        "Borda count", scores,
                                        <<sort_dict_desc(scores)[1].c>>,
                                        BordaDetails(variant, randomize))))
                             /\ ballots' = g.ballots
                             /\ counts' = scores
                             /\ nranks' = c.n
                             /\ UNCHANGED <<winners, total_votes, quota, passes>>
    /\ UNCHANGED first

NextBorda ==
    \/ GenerateVoterMap
    \/ SimulateBordaCount

SpecBorda == Init /\ [][NextBorda]_vars

\* simulate_bucklin_voting up to the round loop (lines 853-861)
SimulateBucklinVoting ==
    /\ Callable
    /\ \E randomize \in RandomizeArgs, drawn \in DrawsFor(Len(candidates)) :
        LET c == [NoCall EXCEPT !.method = "bucklin", !.randomize = randomize,
                                !.n = Min(drawn, Len(candidates))]
        IN  IF Len(candidates) <= 1
            THEN End(c, Raised("NotEnoughCandidatesError")) /\ UNCHANGED locals
            ELSE \E g \in generate_ranked_ballots(voter_map, c.n, candidates, randomize) :
                    IF g.err # "none" THEN End(c, Raised(g.err)) /\ UNCHANGED locals
                    ELSE /\ call' = c
                         /\ pc' = "bucklin"
                         /\ err' = "none"
                         /\ result' = NoResult
                         /\ ballots' = g.ballots
                         /\ counts' = ZeroCounts(candidates)
                         /\ total_votes' = SumVoters(g.ballots)
                         /\ nranks' = c.n
                         /\ passes' = 0
                         /\ UNCHANGED <<region, total_voters, voter_map, candidates, winners, quota>>
    /\ UNCHANGED first

\* one pass of `while True` (lines 862-881), and the return that follows
\* the pass in which a majority is found (lines 882-891)
BucklinPass ==
    /\ pc = "bucklin"
    /\ LET counted == BucklinCount(ballots, counts, 1)
           checked == MajorityCheck(counted.counts, total_votes)
       IN  /\ ballots' = counted.ballots
           /\ counts' = counted.counts
           /\ passes' = passes + 1
           /\ IF checked.err # "none" THEN End(call, Raised(checked.err))
              ELSE IF checked.majority_reached
              THEN End(call, Returned(ElectionResult(
                        "Bucklin voting", counted.counts,
                        <<sort_dict_desc(counted.counts)[1].c>>,
                        <<"candidates", "ranks per ballot">>
                            \o (IF call.randomize THEN <<"Randomized ballot generation">>
                                ELSE <<>>))))
              ELSE UNCHANGED <<region, total_voters, voter_map, candidates, pc, call, err, result>>
    /\ UNCHANGED <<winners, total_votes, quota, nranks, first>>

NextBucklin ==
    \/ GenerateVoterMap
    \/ SimulateBucklinVoting
    \/ BucklinPass

SpecBucklin == Init /\ [][NextBucklin]_vars

\* Score ballots are generated on candidate lists of up to MaxShuffled
\* entries; a call that fails the validation generates none.
SimulateStarBlocVoting ==
    /\ Callable
    /\ \E seats \in 0..MaxSeats, randomize \in RandomizeArgs,
          drawn \in DrawsFor(Len(candidates)) :
        /\ \/ NoSeatsToFill(seats)
           \/ TooFewCandidates(candidates, seats)
           \/ Len(candidates) <= MaxShuffled
        /\ \E o \in simulate_star_bloc_voting(voter_map, seats, candidates, randomize, drawn) :
            Finish([NoCall EXCEPT !.method = "star_bloc", !.seats = seats,
                                  !.randomize = randomize,
                                  !.n = Min(drawn, Len(candidates))], o)

\* the seat-based methods
NextSeats ==
    \/ GenerateVoterMap
    \/ SimulateNtv
    \/ SimulateSntv
    \/ SimulateMntv
    \/ SimulateLimitedVoting
    \/ SimulateStv
    \/ StvLoop
    \/ StvReturn
    \/ SimulateStarBlocVoting

SpecSeats == Init /\ [][NextSeats]_vars

\* the (min_score, max_score) pairs a score voting call is made with
ScoreRangeArgs == (-1..1) \X (0..2)

\* a call that keeps the ballots it generated and nothing else ends at once
FinishScored(c, o) ==
    /\ End(c, o.out)
    /\ ballots' = o.ballots
    /\ UNCHANGED <<counts, winners, total_votes, quota, nranks, passes, first>>

\* Score ballots are generated on candidate lists of up to MaxShuffled
\* entries; a call that fails the validation generates none.
SimulateScoreVoting ==
    /\ Callable
    /\ \E range \in ScoreRangeArgs, randomize \in RandomizeArgs,
          drawn \in DrawsFor(Len(candidates)) :
        /\ \/ InvalidScoreRange(range[1], range[2])
           \/ Len(candidates) <= MaxShuffled
        /\ \E o \in simulate_score_voting(voter_map, candidates, range[1], range[2],
                                          randomize, drawn) :
            FinishScored([NoCall EXCEPT !.method = "score", !.randomize = randomize,
                                        !.min_score = range[1], !.max_score = range[2],
                                        !.n = Min(drawn, Len(candidates))], o)

SimulateCav ==
    /\ Callable
    /\ Len(candidates) <= MaxShuffled
    /\ \E randomize \in RandomizeArgs, drawn \in DrawsFor(Len(candidates)) :
        \E o \in simulate_cav(voter_map, candidates, randomize, drawn) :
            FinishScored([NoCall EXCEPT !.method = "cav", !.randomize = randomize,
                                        !.min_score = -1, !.max_score = 1,
                                        !.n = Min(drawn, Len(candidates))], o)

SimulateApprovalVoting ==
    /\ Callable
    /\ Len(candidates) <= MaxShuffled
    /\ \E randomize \in RandomizeArgs, drawn \in DrawsFor(Len(candidates)) :
        \E o \in simulate_approval_voting(voter_map, candidates, randomize, drawn) :
            FinishScored([NoCall EXCEPT !.method = "approval", !.randomize = randomize,
                                        !.min_score = 0, !.max_score = 1,
                                        !.n = Min(drawn, Len(candidates))], o)

\* the score-based methods
NextScore ==
    \/ GenerateVoterMap
    \/ SimulateScoreVoting
    \/ SimulateCav
    \/ SimulateApprovalVoting

SpecScore == Init /\ [][NextScore]_vars

\* the call ends at once; the ballots and the count of the first round are
\* kept, total_votes is the 0 it was set to
SimulateTrs ==
    /\ Callable
    /\ \E randomize \in RandomizeArgs :
        \E o \in simulate_trs(voter_map, candidates, randomize) :
            /\ End([NoCall EXCEPT !.method = "trs", !.n = 1, !.seats = 1,
                                  !.randomize = randomize], o.out)
            /\ ballots' = o.ballots
            /\ counts' = o.counts
            /\ total_votes' = 0
            /\ UNCHANGED <<winners, quota, nranks, passes, first>>

NextTrs ==
    \/ GenerateVoterMap
    \/ SimulateTrs

SpecTrs == Init /\ [][NextTrs]_vars

\* the call ends at once; the ballots it generated are kept
SimulateCopeland ==
    /\ Callable
    /\ \E randomize \in RandomizeArgs, drawn \in DrawsFor(Len(candidates)) :
        \E o \in simulate_copeland(voter_map, candidates, randomize, drawn) :
            FinishScored([NoCall EXCEPT !.method = "copeland", !.seats = 1,
                                        !.randomize = randomize,
                                        !.n = Min(drawn, Len(candidates))], o)

NextCopeland ==
    \/ GenerateVoterMap
    \/ SimulateCopeland

SpecCopeland == Init /\ [][NextCopeland]_vars

SimulateStarVoting ==
    /\ Callable
    /\ \E randomize \in RandomizeArgs, drawn \in DrawsFor(Len(candidates)) :
        /\ \/ TooFewCandidates(candidates, 1)
           \/ Len(candidates) <= MaxShuffled
        /\ \E o \in simulate_star_voting(voter_map, candidates, randomize, drawn) :
            Finish([NoCall EXCEPT !.method = "star", !.seats = 1,
                                  !.randomize = randomize,
                                  !.n = Min(drawn, Len(candidates))], o)

\* the STAR methods
NextStar ==
    \/ GenerateVoterMap
    \/ SimulateStarBlocVoting
    \/ SimulateStarVoting

SpecStar == Init /\ [][NextStar]_vars

\* every simulate_* method of the district
NextDistrict ==
    \/ GenerateVoterMap
    \/ SimulateNtv
    \/ SimulateSntv
    \/ SimulateFptp
    \/ SimulateMntv
    \/ SimulateLimitedVoting
    \/ SimulateTrs
    \/ SimulateStv
    \/ SimulateIrv
    \/ StvLoop
    \/ StvReturn
    \/ SimulateCopeland
    \/ SimulateBordaCount
    \/ SimulateBucklinVoting
    \/ BucklinPass
    \/ SimulateScoreVoting
    \/ SimulateCav
    \/ SimulateApprovalVoting
    \/ SimulateStarBlocVoting
    \/ SimulateStarVoting

SpecDistrict == Init /\ [][NextDistrict]_vars

\* a ballot generator called on its own: the list it returns is kept in
\* ballots, an error it raises in err
Generated(c, e, blts) ==
    /\ End(c, [err |-> e, result |-> NoResult])
    /\ ballots' = blts
    /\ UNCHANGED <<counts, winners, total_votes, quota, nranks, passes, first>>

GenerateBlockBallots ==
    /\ Callable
    /\ \E n \in 0..MaxSeats, randomize \in RandomizeArgs :
        \E blts \in generate_block_ballots(voter_map, n, candidates, randomize) :
            Generated([NoCall EXCEPT !.method = "block_ballots", !.n = n,
                                     !.randomize = randomize], "none", blts)

GenerateRankedBallots ==
    /\ Callable
    /\ \E n \in 0..Len(candidates), randomize \in RandomizeArgs :
        \E g \in generate_ranked_ballots(voter_map, n, candidates, randomize) :
            Generated([NoCall EXCEPT !.method = "ranked_ballots", !.n = n,
                                     !.randomize = randomize], g.err, g.ballots)

GenerateScoreBallots ==
    /\ Callable
    /\ \E n \in 0..Min(MaxSeats, Len(candidates)), range \in ScoreRangeArgs,
          randomize \in RandomizeArgs :
        \E g \in generate_score_ballots(voter_map, n, candidates, range[1], range[2],
                                        randomize) :
            Generated([NoCall EXCEPT !.method = "score_ballots", !.n = n,
                                     !.randomize = randomize,
                                     !.min_score = range[1], !.max_score = range[2]],
                      g.err, g.ballots)

\* the ballot generators
NextBallots ==
    \/ GenerateVoterMap
    \/ GenerateBlockBallots
    \/ GenerateRankedBallots
    \/ GenerateScoreBallots

SpecBallots == Init /\ [][NextBallots]_vars

\* -------------------------------- VotingDistrictsRegion.generate_districts
\* the district variables of a model run that holds a region only
NoDistrict ==
    /\ total_voters = 0
    /\ voter_map = <<>>
    /\ candidates = <<>>
    /\ pc = "idle"
    /\ call = NoCall
    /\ err = "none"
    /\ result = NoResult
    /\ ballots = <<>>
    /\ counts = <<>>
    /\ winners = <<>>
    /\ total_votes = 0
    /\ quota = NoQuota
    /\ nranks = 0
    /\ passes = 0
    /\ first = NoOutcome

district == <<total_voters, voter_map, candidates, pc, call, err, result, ballots, counts,
              winners, total_votes, quota, nranks, passes, first>>

\* __init__ of the region, up to the first pass of the loop of
\* generate_districts: remaining = self.population
InitRegion ==
    /\ NoDistrict
    /\ population \in 1..MaxPopulation
    /\ ndistricts \in 1..population
    /\ districts = <<>>
    /\ region_remaining = population
    /\ region_i = 0
    /\ region_n = 0
    /\ region_pc = "generating"

\* nmin = round(0.005 * self.population)
Nmin == RoundDiv(population, 200)

\* nmax = round(1.5 * self.population / self.ndistricts)
Nmax == RoundDiv(3 * population, 2 * ndistricts)

\* vd = VotingDistrict(..., n, ...); self.districts.append(vd);
\* remaining -= n; and the next pass of `for i in range(self.ndistricts)`
AppendDistrict(voters) ==
    /\ region_n' = voters
    /\ districts' = Append(districts, voters)
    /\ region_remaining' = region_remaining - voters
    /\ region_i' = region_i + 1
    /\ region_pc' = IF region_i + 1 < ndistricts THEN "generating" ELSE "done"
    /\ UNCHANGED <<population, ndistricts, district>>

\* a pass of `while n >= remaining or n == 0` whose draw does not end the
\* loop; n is remaining before the first draw, so a draw is always made.
\* For population >= ndistricts >= 1 within MaxPopulation, nmin <= nmax and
\* rd.randint(nmin, nmax) does not raise.
DrawRejected ==
    /\ region_pc = "generating"
    /\ region_i < ndistricts - 1
    /\ \E d \in Nmin..Nmax :
        /\ d >= region_remaining \/ d = 0
        /\ region_n' = d
    /\ UNCHANGED <<population, ndistricts, districts, region_remaining, region_i,
                   region_pc, district>>

\* the pass of the while loop whose draw ends it, and the rest of the pass
\* of the for loop
DrawAccepted ==
    /\ region_pc = "generating"
    /\ region_i < ndistricts - 1
    /\ \E d \in Nmin..Nmax :
        /\ ~(d >= region_remaining \/ d = 0)
        /\ AppendDistrict(d)

\* the last pass of the for loop: n = remaining
CreateLastDistrict ==
    /\ region_pc = "generating"
    /\ region_i = ndistricts - 1
    /\ AppendDistrict(region_remaining)

NextRegion ==
    \/ DrawRejected
    \/ DrawAccepted
    \/ CreateLastDistrict

SpecRegion == InitRegion /\ [][NextRegion]_vars

\* A draw that ends the while loop, possible again and again, is made in
\* the end; the last district is created once its turn has come.
SpecRegionFair ==
    /\ SpecRegion
    /\ SF_vars(DrawAccepted)
    /\ WF_vars(CreateLastDistrict)

\* ================================================================== claims
NtvFamily == {"ntv", "sntv", "fptp", "mntv", "limited"}

PositionOf(c) == CHOOSE i \in 1..Len(candidates) : candidates[i] = c

CountOf(c) == ValueOf(result.counts, c)

\* a is ahead of b: more votes, or as many and earlier in the candidate list
Ahead(a, b) ==
    \/ CountOf(a) > CountOf(b)
    \/ CountOf(a) = CountOf(b) /\ PositionOf(a) < PositionOf(b)

TotalVoters == SumSeq([k \in 1..Len(voter_map) |-> voter_map[k].voters])

\* C2: the winners of an NTV-family election are exactly the `seats`
\* candidates with the highest counts, in that order, a candidate of equal
\* count coming first when it is earlier in the input candidate list.
C2_TopSeatsByCount ==
    (pc = "returned" /\ call.method \in NtvFamily) =>
        LET w == result.winners
        IN  /\ Len(w) = call.seats
            /\ \A i, j \in 1..Len(w) : i < j => Ahead(w[i], w[j])
            /\ \A c \in Range(candidates) \ Range(w) : \A i \in 1..Len(w) : Ahead(w[i], c)

\* C2 witness: a winner and a loser tie on a positive count.
C2_Witness ==
    /\ pc = "returned" /\ call.method \in NtvFamily /\ call.seats >= 2
    /\ \E a \in Range(result.winners), b \in Range(candidates) \ Range(result.winners) :
            CountOf(a) = CountOf(b) /\ CountOf(a) > 0

\* the candidates a voter group can put on its ballot
Available(group) ==
    Cardinality({c \in Range(candidates) : c.party \in Range(group)})

\* C3 (as claimed): when n candidates are available to every voter group,
\* the counts of an NTV-family election sum to (total ballot weight) * n.
C3_CountsSumToWeightTimesN ==
    (/\ pc = "returned" /\ call.method \in NtvFamily
     /\ \A k \in 1..Len(voter_map) : Available(voter_map[k].group) >= call.n) =>
        SumSeq([i \in 1..Len(result.counts) |-> result.counts[i].v]) = TotalVoters * call.n

\* the first candidate, by input order, of party p
FirstOf(p) == OfParty(candidates, p)[1]

\* the voters of the groups that the rule `choice` sends to candidate c
VotersSentTo(c, choice(_)) ==
    SumSeq([k \in 1..Len(voter_map) |->
                IF choice(voter_map[k].group) = <<c>> THEN voter_map[k].voters ELSE 0])

\* the first candidate of the group's most-preferred party (if it has one)
MostPreferredChoice(group) ==
    IF OfParty(candidates, group[1]) = <<>> THEN <<>> ELSE <<FirstOf(group[1])>>

\* the first candidate of the most-preferred party that has a candidate
RECURSIVE FirstFieldedFrom(_, _)
FirstFieldedFrom(group, j) ==
    IF j > Len(group) THEN <<>>
    ELSE IF OfParty(candidates, group[j]) # <<>> THEN <<FirstOf(group[j])>>
    ELSE FirstFieldedFrom(group, j + 1)

FirstFieldedChoice(group) == FirstFieldedFrom(group, 1)

FptpCounted(choice(_)) ==
    (pc = "returned" /\ call.method = "fptp" /\ ~call.randomize) =>
        /\ \A c \in Range(candidates) : CountOf(c) = VotersSentTo(c, choice)
        /\ Len(result.winners) = 1
        /\ \A c \in Range(candidates) : CountOf(result.winners[1]) >= CountOf(c)

\* C8 (as claimed): FPTP with randomize=False counts every voter group's
\* full weight for the first candidate of the group's most-preferred party,
\* and the candidate with the largest total is the only winner.
C8_Original == FptpCounted(MostPreferredChoice)

\* C8 (amended): FPTP with randomize=False counts every voter group's full
\* weight for the first candidate of the most-preferred party of the group
\* that has a candidate in the list, and the candidate with the largest
\* total is the only winner.
C8_FptpFirstFielded == FptpCounted(FirstFieldedChoice)

\* C8 witness: candidates R0, R1, D0, D1 and one group preferring R: R0
\* holds the whole weight and is the only winner.
C8_Witness ==
    /\ pc = "returned" /\ call.method = "fptp" /\ ~call.randomize
    /\ candidates = generate_candidates([p \in Range(PARTIES) |-> IF p = "G" THEN 0 ELSE 2])
    /\ voter_map = <<[group |-> <<"R", "D", "G">>, voters |-> 2]>>
    /\ result.counts[1] = Entry(Candidate("R", 0), 2)
    /\ result.winners = <<Candidate("R", 0)>>

\* C1 (as claimed): a simulate_stv call that passes the validation returns
\* exactly `seats` winners.
C1_ExactlySeatsWinners ==
    (pc = "returned" /\ call.method = "stv") => Len(result.winners) = call.seats

\* the remaining candidates whose count reaches the quota
ReachingQuota ==
    {e.c : e \in {x \in Range(Remaining(counts, winners)) : x.v >= quota}}

\* the weight of the ballots with e as first choice and d as next choice
WeightNextTo(e, d) ==
    SumSeq([k \in 1..Len(ballots) |->
                LET r == ballots[k].ranking
                IN  IF Len(r) >= 2 /\ r[1] = e /\ r[2] = d THEN ballots[k].voters ELSE 0])

\* C4 (as claimed): in a quota round with surplus transfers in which one
\* remaining candidate reaches the quota (and the round ends without an
\* error), that candidate is elected and every other candidate gains
\* floor(weight * surplus / count) of the ballots that had the elected
\* candidate first and it next; no count drops, so nothing is eliminated.
C4_SurplusRedistributed ==
    [][(/\ pc = "stv" /\ pc' = "stv"
        /\ call.droop_quota /\ call.surplus_transfers
        /\ Len(winners) < call.seats
        /\ Cardinality(ReachingQuota) = 1) =>
            LET e == CHOOSE c \in ReachingQuota : TRUE
                surplus == ValueOf(counts, e) - quota
            IN  /\ e \in Range(winners')
                /\ \A d \in Range(candidates) \ {e} :
                      ValueOf(counts', d) =
                          ValueOf(counts, d)
                              + ((WeightNextTo(e, d) * surplus) \div ValueOf(counts, e))]_vars

\* C6: the Droop quota simulate_stv computes is more than a (seats+1)-th of
\* the votes, so that no more than `seats` candidates hold a quota at once.
C6_DroopQuotaBound ==
    (pc = "stv" /\ call.droop_quota) =>
        /\ quota = (total_votes \div (call.seats + 1)) + 1
        /\ quota * (call.seats + 1) > total_votes
        /\ Cardinality({i \in 1..Len(counts) : counts[i].v >= quota}) <= call.seats

\* C6 witness: the votes divide evenly by seats+1 and `seats` candidates
\* hold the quota or more.
C6_Witness ==
    /\ pc = "stv" /\ call.droop_quota
    /\ total_votes > 0 /\ total_votes % (call.seats + 1) = 0
    /\ Cardinality({i \in 1..Len(counts) : counts[i].v >= quota}) = call.seats

PointsOfRank(i) == CountOf(ballots[1].ranking[i])

\* C9 (as claimed): the points simulate_borda_count adds for a ballot of
\* positive weight strictly decrease along the ranking; in the standard
\* variant they are weight * (n - rank index), and in the Dowdall variant
\* the points of a ballot of weight 1 lie in (0, 1].
C9_BordaPointsDecrease ==
    (/\ pc = "returned" /\ call.method = "borda"
     /\ Len(ballots) = 1 /\ ballots[1].voters >= 1) =>
        LET weight == ballots[1].voters
            ranks  == 1..Len(ballots[1].ranking)
        IN  /\ \A i, j \in ranks : i < j => PointsOfRank(i) > PointsOfRank(j)
            /\ call.variant = "standard" =>
                    \A i \in ranks : PointsOfRank(i) = weight * (nranks - (i - 1))
            /\ (call.variant = "dowdall" /\ weight = 1) =>
                    \A i \in ranks : 0 < PointsOfRank(i) /\ PointsOfRank(i) <= 1

SeatBased == {"ntv", "sntv", "mntv", "limited", "stv", "star_bloc"}

\* C10: a seat-based method (NTV, SNTV, MNTV, limited voting, STV, STAR
\* bloc voting) called with more seats than there are candidates raises
\* NotEnoughCandidatesError and returns no result.
C10_NotEnoughCandidates ==
    (pc # "idle" /\ call.method \in SeatBased /\ call.seats > Len(candidates)) =>
        /\ pc = "raised"
        /\ err = "NotEnoughCandidatesError"
        /\ result = NoResult

\* C10 witness: STAR bloc voting was asked for more seats than the two or
\* more candidates of the list and has raised.
C10_Witness ==
    /\ pc = "raised" /\ call.method = "star_bloc"
    /\ Len(candidates) >= 2 /\ call.seats > Len(candidates)
    /\ err = "NotEnoughCandidatesError"

\* C12: a seat-based method (NTV, SNTV, MNTV, limited voting, STV, STAR
\* bloc voting) called with seats < 1 raises NoSeatsToFillError and returns
\* no result, and no ballot has been generated when it does, whatever the
\* candidate list is.
C12_NoSeatsToFill ==
    (pc # "idle" /\ call.method \in SeatBased /\ call.seats < 1) =>
        /\ pc = "raised"
        /\ err = "NoSeatsToFillError"
        /\ result = NoResult
        /\ ballots = <<>>

\* C12 witness: STV was asked for no seat on a list of two or more
\* candidates, with voters in the district, and has raised.
C12_Witness ==
    /\ pc = "raised" /\ call.method = "stv" /\ call.seats < 1
    /\ Len(candidates) >= 2 /\ voter_map # <<>>
    /\ err = "NoSeatsToFillError"

ScoreBased == {"score", "cav", "approval"}

\* C11 as stated: a score-based call with min_score > max_score raises
\* InvalidScoreRangeError with no ballot generated, whatever the candidate
\* list is.
C11_Original ==
    (pc # "idle" /\ call.method \in ScoreBased /\ call.min_score > call.max_score) =>
        /\ pc = "raised"
        /\ err = "InvalidScoreRangeError"
        /\ ballots = <<>>

\* C11: a score-based call with min_score > max_score raises, returns no
\* result and has generated no ballot; the error is InvalidScoreRangeError
\* when the list holds two candidates or more, NotEnoughCandidatesError
\* when it holds fewer.
C11_InvalidScoreRange ==
    (pc # "idle" /\ call.method \in ScoreBased /\ call.min_score > call.max_score) =>
        /\ pc = "raised"
        /\ result = NoResult
        /\ ballots = <<>>
        /\ err = IF Len(candidates) >= 2 THEN "InvalidScoreRangeError"
                 ELSE "NotEnoughCandidatesError"

\* C11 witness: score voting was called with min_score > max_score on two
\* candidates or more in a district with voters, and raised
\* InvalidScoreRangeError.
C11_Witness ==
    /\ pc = "raised" /\ call.method = "score" /\ call.min_score > call.max_score
    /\ Len(candidates) >= 2 /\ voter_map # <<>> /\ voter_map[1].voters > 0
    /\ err = "InvalidScoreRangeError"

\* the district has voters, and every group of its voter map has some
Populated == voter_map # <<>> /\ \A g \in 1..Len(voter_map) : voter_map[g].voters > 0

\* the candidates that more than half of the voters of the first round
\* voted for
TrsMajority == {c \in Range(candidates) : 2 * ValueOf(counts, c) > SumVoters(ballots)}

\* C15: a two-round election on two candidates or more, in a district whose
\* voter groups all have voters, returns a result.
\* When a candidate has the majority of the first-round votes, it is the
\* winner and the counts returned are those of the first round; otherwise
\* the counts returned are those of the two candidates with the highest
\* first-round counts and the winner is the one with the higher count.
C15_TwoRounds ==
    (pc # "idle" /\ call.method = "trs" /\ Len(candidates) >= 2 /\ Populated) =>
        /\ pc = "returned"
        /\ Len(result.winners) = 1
        /\ IF TrsMajority # {}
           THEN /\ result.winners[1] \in TrsMajority
                /\ result.counts = counts
           ELSE /\ Keys(result.counts) = Keys(Take(sort_dict_desc(counts), 2))
                /\ \A i \in 1..Len(result.counts) :
                        ValueOf(result.counts, result.winners[1]) >= result.counts[i].v

\* the place of candidate c in ranking r, behind all when r lacks it
PlaceIn(r, c) ==
    IF c \in Range(r) THEN CHOOSE j \in 1..Len(r) : r[j] = c ELSE Len(r) + 1

\* the voters whose ballot ranks a before b
Prefer(a, b) ==
    SumSeq([k \in 1..Len(ballots) |->
                IF PlaceIn(ballots[k].ranking, a) < PlaceIn(ballots[k].ranking, b)
                THEN ballots[k].voters ELSE 0])

Beats(a, b) == Prefer(a, b) > Prefer(b, a)

Ranked == UNION {Range(ballots[k].ranking) : k \in 1..Len(ballots)}

\* pairwise wins minus pairwise losses
WinLoss(c) ==
    Cardinality({d \in Ranked : Beats(c, d)}) - Cardinality({d \in Ranked : Beats(d, c)})

\* C18: a Copeland election on two candidates or more, whose ballots were
\* generated, returns a result: the score of every ranked candidate is the
\* number of its pairwise wins minus the number of its pairwise losses, the
\* winner has the highest score, and a candidate that beats every other
\* one is the winner.
C18_CopelandWinLoss ==
    (pc # "idle" /\ call.method = "copeland" /\ Len(candidates) >= 2
        /\ Populated /\ ballots # <<>>) =>
        /\ pc = "returned"
        /\ Len(result.winners) = 1
        /\ Range(Keys(result.counts)) = Ranked
        /\ \A c \in Ranked :
            /\ ValueOf(result.counts, c) = WinLoss(c)
            /\ WinLoss(result.winners[1]) >= WinLoss(c)
            /\ (\A d \in Ranked \ {c} : Beats(c, d)) => result.winners = <<c>>

\* a step of a simulate_* call: the call starts, or its loop goes on
CallStep == (pc = "idle" /\ pc' # "idle") \/ pc \in {"stv", "bucklin"}

\* C13: no step of any simulate_* call changes the district's voter map or
\* the candidate list the caller passed, whether the call goes on, returns
\* or ends in an error.
C13_FrameKept ==
    [][CallStep => (voter_map' = voter_map /\ candidates' = candidates)]_vars

\* C13 witness: an STV call on a district with voters elected a candidate,
\* took it off the ballots it had generated, and then ended in an error.
C13_Witness ==
    /\ pc = "raised" /\ call.method = "stv"
    /\ winners # <<>> /\ Populated
    /\ \E k \in 1..Len(ballots) : Len(ballots[k].ranking) < nranks

\* the call got through the validation of simulate_stv
ValidStvCall ==
    /\ call.method = "stv"
    /\ call.seats >= 1 /\ Len(candidates) >= 2 /\ call.seats <= Len(candidates)

\* C14: a simulate_stv call with valid input, in a district whose voter
\* groups all have voters and whose ballots were generated, ends by
\* returning a result, never in an error, whatever the flags are.
C14_StvNeverRaises ==
    (ValidStvCall /\ Populated /\ ballots # <<>> /\ pc \in {"returned", "raised"}) =>
        pc = "returned"

\* the round about to run is an elimination round: the loop does not stop
\* early and no remaining candidate reaches the quota
EliminationRound ==
    LET remaining == Remaining(counts, winners)
    IN  /\ pc = "stv" /\ Len(winners) < call.seats
        /\ remaining # <<>>
        /\ ~(call.seats = 1 /\ Len(remaining) = 2)
        /\ Len(remaining) # call.seats
        /\ call.droop_quota => ReachingQuota = {}

\* the remaining candidate with the lowest count
LowestRemaining ==
    LET remaining == Remaining(counts, winners) IN remaining[Len(remaining)].c

\* C16: an elimination round of simulate_stv, in a district whose voter
\* groups all have voters, does not end the call; the count of the
\* remaining candidate with the lowest count becomes 0, the candidate goes
\* from every ballot once, and every other candidate gains the full weight
\* of the ballots that had the eliminated one first and it next, no more.
C16_Elimination ==
    [][(EliminationRound /\ Populated) =>
            LET lfc == LowestRemaining
            IN  /\ pc' = "stv"
                /\ ValueOf(counts', lfc) = 0
                /\ \A k \in 1..Len(ballots) :
                      ballots'[k].ranking = Remove(ballots[k].ranking, lfc)
                /\ \A d \in Range(candidates) \ {lfc} :
                      ValueOf(counts', d) = ValueOf(counts, d) + WeightNextTo(lfc, d)]_vars

\* the candidates whose count is more than half of the votes
BucklinMajority == {c \in Range(candidates) : 2 * ValueOf(counts, c) > total_votes}

\* C17: a Bucklin election in a district whose voter groups all have voters
\* goes on while no count exceeds 50% of the votes and stops after the
\* first pass in which one does, no earlier and no later; it then returns
\* the counts of that pass and as winner the candidate with the highest
\* count, which exceeds 50%.
C17_BucklinStopsAtMajority ==
    (call.method = "bucklin" /\ Populated /\ passes >= 1) =>
        /\ pc = "bucklin" => BucklinMajority = {}
        /\ pc = "returned" => BucklinMajority # {}
        /\ BucklinMajority # {} =>
            /\ pc = "returned"
            /\ result.counts = counts
            /\ result.winners = <<sort_dict_desc(counts)[1].c>>
            /\ result.winners[1] \in BucklinMajority

\* the call got through the validation of simulate_star_bloc_voting and
\* its score ballots were generated
ValidStarCall ==
    /\ pc \in {"returned", "raised"}
    /\ call.seats >= 1 /\ Len(candidates) >= 2 /\ call.seats <= Len(candidates)
    /\ Populated
    /\ err # "IndexError"

\* C19: a STAR bloc voting call with valid input, in a district whose voter
\* groups all have voters, returns a result with exactly `seats` winners,
\* no candidate twice.
C19_StarBlocFillsSeats ==
    (call.method = "star_bloc" /\ ValidStarCall) =>
        /\ pc = "returned"
        /\ Len(result.winners) = call.seats
        /\ \A i, j \in 1..Len(result.winners) :
              result.winners[i] = result.winners[j] => i = j

\* the score ballots of a call that does not randomize
StarBallots ==
    (CHOOSE g \in generate_score_ballots(voter_map, call.n, candidates, 0, 5, FALSE) :
        TRUE).ballots

\* the score a ballot gives candidate c, below every score when it gives none
ScoreOn(scores, c) ==
    IF c \in Range(Keys(scores)) THEN ValueOf(scores, c) ELSE -1

\* the voters whose ballot scores a strictly higher than b
Prefers(a, b) ==
    SumSeq([k \in 1..Len(StarBallots) |->
                IF ScoreOn(StarBallots[k].scores, a) > ScoreOn(StarBallots[k].scores, b)
                THEN StarBallots[k].voters ELSE 0])

\* C20: a single-seat STAR call with valid input that does not randomize,
\* in a district whose voter groups all have voters, returns a result: the
\* winner is one of the two candidates with the highest total scores, the
\* one that more voters score strictly higher than the other; a ballot that
\* does not score a finalist does not end the call in an error.
C20_StarRunoff ==
    (call.method = "star" /\ ~call.randomize /\ ValidStarCall) =>
        /\ pc = "returned"
        /\ Len(result.winners) = 1
        /\ LET finalists == Keys(Take(sort_dict_desc(result.counts), 2))
               a == finalists[1]
               b == finalists[2]
           IN  /\ result.winners[1] \in {a, b}
               /\ Prefers(a, b) > Prefers(b, a) => result.winners[1] = a
               /\ Prefers(b, a) > Prefers(a, b) => result.winners[1] = b

\* no entry of the list s comes twice
NoRepeats(s) == \A i, j \in 1..Len(s) : s[i] = s[j] => i = j

\* C21: every ballot generate_block_ballots returns, in a district whose
\* voter groups all have voters, holds at most n candidates, no candidate
\* twice, all of them of the supplied list.
C21_BlockBallotWithinN ==
    (pc = "returned" /\ call.method = "block_ballots" /\ Populated) =>
        \A k \in 1..Len(ballots) :
            /\ Len(ballots[k].ballot) <= call.n
            /\ NoRepeats(ballots[k].ballot)
            /\ Range(ballots[k].ballot) \subseteq Range(candidates)

\* C22: generate_ranked_ballots called with n <= len(candidates), in a
\* district whose voter groups all have voters, returns without an error,
\* and every ranking it returns holds exactly n candidates, no candidate
\* twice, all of them of the supplied list.
C22_RankedBallotOfN ==
    (pc \in {"returned", "raised"} /\ call.method = "ranked_ballots"
        /\ call.n <= Len(candidates) /\ Populated) =>
        /\ pc = "returned"
        /\ \A k \in 1..Len(ballots) :
            /\ Len(ballots[k].ranking) = call.n
            /\ NoRepeats(ballots[k].ranking)
            /\ Range(ballots[k].ranking) \subseteq Range(candidates)

\* the score ballots generate_score_ballots returned for sound arguments:
\* min_score <= max_score, in a district whose voter groups all have voters
ScoreBallotsReturned ==
    /\ pc = "returned" /\ call.method = "score_ballots"
    /\ call.min_score <= call.max_score
    /\ Populated

\* every party has a candidate in the list
AllPartiesRun == \A p \in Range(PARTIES) : OfParty(candidates, p) # <<>>

\* C23: in every ballot generate_score_ballots returns for n >= 2, on a
\* list in which every party has a candidate, a candidate of the group's
\* most-preferred party holds max_score, another candidate, of the group's
\* least-preferred party, holds min_score, and exactly n candidates are
\* scored.
C23_ScoreBallotEnds ==
    (ScoreBallotsReturned /\ call.n >= 2 /\ AllPartiesRun) =>
        \A k \in 1..Len(ballots) :
            LET scores == ballots[k].scores
                prefs  == voter_map[k].group
            IN  /\ Len(scores) = call.n
                /\ \E i, j \in 1..Len(scores) :
                    /\ i # j
                    /\ scores[i].c.party = prefs[1]
                    /\ scores[i].v = 2 * call.max_score
                    /\ scores[j].c.party = prefs[Len(prefs)]
                    /\ scores[j].v = 2 * call.min_score

\* C24: every score of every ballot generate_score_ballots returns lies
\* within [min_score, max_score], for every min_score <= max_score.
C24_ScoreWithinRange ==
    ScoreBallotsReturned =>
        \A k \in 1..Len(ballots) :
            \A i \in 1..Len(ballots[k].scores) :
                /\ ballots[k].scores[i].v >= 2 * call.min_score
                /\ ballots[k].scores[i].v <= 2 * call.max_score

\* what a set of outcomes holds apart from the name and the details lines
CountsAndWinners(outcomes) ==
    {[err |-> o.err, counts |-> o.result.counts, winners |-> o.result.winners] :
        o \in outcomes}

\* C25: for the district and the arguments of an FPTP call, in a district
\* whose voter groups all have voters, the counts and winners (or the
\* error) simulate_fptp can end with are exactly those simulate_ntv with
\* n = 1 and seats = 1 can end with, for either value of randomize.
C25_FptpIsNtvPreset ==
    (pc # "idle" /\ call.method = "fptp" /\ Populated) =>
        CountsAndWinners(simulate_fptp(voter_map, candidates, call.randomize))
            = CountsAndWinners(simulate_ntv(voter_map, 1, 1, candidates, call.randomize))

\* C26: the mapping generate_voter_map produces gives every voter group a
\* count of zero or more, and the counts sum to the district's
\* total_voters.
C26_VoterMapSound ==
    voter_map # <<>> =>
        /\ \A g \in 1..Len(voter_map) : voter_map[g].voters >= 0
        /\ TotalVoters = total_voters

\* C29: a district constructed with total_voters > 0 has a voter map that
\* is not empty and is one of the mappings generate_voter_map can produce
\* for its total_voters, from the moment it is constructed.
C29_VoterMapAfterInit ==
    total_voters > 0 =>
        /\ voter_map # <<>>
        /\ \E voter_groups \in VoterGroupLists :
                voter_map \in generate_voter_map(total_voters, voter_groups)

\* the sum of the values of a dict
SumOfCounts(cnt) == SumSeq([i \in 1..Len(cnt) |-> cnt[i].v])

C27_TrsWinnerHasMajority ==
    (pc \in {"returned", "raised"} /\ call.method = "trs"
        /\ Len(candidates) >= 2 /\ Populated) =>
        /\ pc = "returned"
        /\ 2 * ValueOf(result.counts, result.winners[1]) > SumOfCounts(result.counts)

\* generate_districts has returned with ndistricts districts, each of one
\* voter or more, that hold the population between them
DistrictsGenerated ==
    /\ region_pc = "done"
    /\ Len(districts) = ndistricts
    /\ \A k \in 1..Len(districts) : districts[k] >= 1
    /\ SumSeq(districts) = population

\* C30: generate_districts of a region with population >= ndistricts >= 1
\* ends, having created ndistricts districts of one voter or more each
\* whose voters sum to the population.
C30_GenerateDistrictsEnds == <>DistrictsGenerated

=============================================================================
